---- MODULE Spec2Model ----
(***************************************************************************)
(* Model of the value bridge of lvelements (src/lib/lvelements/src/        *)
(* value.cpp): the persistent tagged union Value, the reference counted    *)
(* engine handle wrapper ScopedValue and the conversions between them;     *)
(* and of two of its consumers, the timeline Track and the editing state   *)
(* of the DocumentHandler.                                                 *)
(*                                                                         *)
(* Five specifications share the module:                                   *)
(*   SpecValue   life cycle of Value objects (construct, copy, assign,     *)
(*               destroy) over a heap of owned wrapper copies;             *)
(*   SpecScoped  life cycle of ScopedValue objects over the heap of        *)
(*               (LocalValuePrivate, int) pairs;                           *)
(*   SpecConv    the accessors of a Value and the conversions Value ->     *)
(*               ScopedValue -> native / Value, on bounded input sets.     *)
(*   SpecTrack   the segments of a Track and its cursor notifications;     *)
(*   SpecEditing the editing state flags of a DocumentHandler.             *)
(***************************************************************************)
EXTENDS Integers, Sequences, FiniteSets, TLC

\* ------------------------------------------------------------------------
\* Machine integers.  Value::Int32 is a TLC integer in MinInt32..MaxInt32.
\* Value::Int64 is the pair [hi, lo] of two 32 bit words, both kept as
\* signed bit patterns: the integer it denotes is hi * 2^32 + unsigned(lo).
\* ------------------------------------------------------------------------

MaxInt32 == 2147483647

MinInt32 == -MaxInt32 - 1

I64(h, l) == [hi |-> h, lo |-> l]

\* (Value::Int64) of an Int32: sign extension.
Int32ToInt64(x) == I64(IF x < 0 THEN -1 ELSE 0, x)

\* (Value::Int64) of a bool.
BoolToInt64(b) == I64(0, IF b THEN 1 ELSE 0)

\* (Value::Int32) of an Int64, and the implicit narrowing of an Int64
\* argument to an int32_t parameter: the low word.
Int64ToInt32(i) == i.lo

\* (bool) of an Int64.
Int64ToBool(i) == i.hi # 0 \/ i.lo # 0

FitsInt32(i) == i = Int32ToInt64(i.lo)

\* ------------------------------------------------------------------------
\* Value::Number (IEEE double).  k = "int": the integral double hi*2^32 +
\* unsigned(lo), which is exactly representable; k = "half": that integer
\* plus one half (a non integral double); "negzero", "nan" and "pow63"
\* (2^63, which no Int64 holds) are the special values.
\* ------------------------------------------------------------------------

Num(kind, h, l) == [k |-> kind, hi |-> h, lo |-> l]

NumInt(i) == Num("int", i.hi, i.lo)

NumHalf(x) == Num("half", IF x < 0 THEN -1 ELSE 0, x)

NumNegZero == Num("negzero", 0, 0)

NumNaN == Num("nan", 0, 0)

NumPow63 == Num("pow63", 0, 0)

\* operator == of two doubles: NaN differs from everything, -0.0 == 0.0.
NumEq(a, b) ==
    IF a.k = "nan" \/ b.k = "nan" THEN FALSE
    ELSE LET za == IF a.k = "negzero" THEN NumInt(I64(0, 0)) ELSE a
             zb == IF b.k = "negzero" THEN NumInt(I64(0, 0)) ELSE b
         IN  za = zb

Pow2(n) == 2 ^ n

\* Number of significant bits of a non negative 32 bit word.
RECURSIVE BitLen(_)
BitLen(x) == IF x = 0 THEN 0 ELSE 1 + BitLen(x \div 2)

\* Two's complement negation of an Int64 other than INT64_MIN.
NegInt64(i) ==
    IF i.lo = 0 THEN I64(-i.hi, 0)
    ELSE I64(-(i.hi + 1), IF i.lo = MinInt32 THEN MinInt32 ELSE -i.lo)

\* Round a non negative Int64 to 53 significant bits, ties to even.
RoundMagnitude(m) ==
    IF m.hi < Pow2(21) THEN NumInt(m)
    ELSE LET e    == BitLen(m.hi) - 21
             r    == m.lo % Pow2(e)
             base == m.lo - r
             half == Pow2(e - 1)
             up   == r > half \/ (r = half /\ (m.lo \div Pow2(e)) % 2 = 1)
         IN  IF ~up THEN NumInt(I64(m.hi, base))
             ELSE IF base = -Pow2(e)
                  THEN IF m.hi = MaxInt32 THEN NumPow63
                       ELSE NumInt(I64(m.hi + 1, 0))
             ELSE IF base = MaxInt32 - Pow2(e) + 1
                  THEN NumInt(I64(m.hi, MinInt32))
             ELSE NumInt(I64(m.hi, base + Pow2(e)))

\* The implicit conversion of an Int64 to a double (round to nearest).
Int64ToNumber(i) ==
    IF i.hi >= 0 THEN RoundMagnitude(i)
    ELSE IF i = I64(MinInt32, 0) THEN NumInt(i)
    ELSE LET r == RoundMagnitude(NegInt64(i))
         IN  IF r.k = "pow63" THEN NumInt(I64(MinInt32, 0))
             ELSE NumInt(NegInt64(I64(r.hi, r.lo)))

\* ------------------------------------------------------------------------
\* Engine handles (v8::Local<v8::Value>).  k is the runtime shape, b / n
\* the primitive payload, id the identity of a string or object, ifc the
\* number of internal fields of an object and ptr the Element pointer kept
\* in internal field 0 of an element object.
\* ------------------------------------------------------------------------

NullPtr == 0

H(kind, bv, nv, idv, cnt, pv) ==
    [k |-> kind, b |-> bv, n |-> nv, id |-> idv, ifc |-> cnt, ptr |-> pv]

NumZero == NumInt(I64(0, 0))

HUndefined == H("undefined", FALSE, NumZero, 0, 0, NullPtr)

HNull == H("null", FALSE, NumZero, 0, 0, NullPtr)

HBoolean(b) == H("boolean", b, NumZero, 0, 0, NullPtr)

HNumber(n) == H("number", FALSE, n, 0, 0, NullPtr)

HString(id) == H("string", FALSE, NumZero, id, 0, NullPtr)

HSymbol(id) == H("symbol", FALSE, NumZero, id, 0, NullPtr)

HObject(kind, id, cnt, p) == H(kind, FALSE, NumZero, id, cnt, p)

ObjectKinds == {"object", "array", "function", "stringObject", "arrayBuffer"}

IsUndefined(h) == h.k = "undefined"

IsNull(h) == h.k = "null"

IsNullOrUndefined(h) == IsNull(h) \/ IsUndefined(h)

IsBoolean(h) == h.k = "boolean"

IsNumber(h) == h.k = "number"

\* v8::Value::IsInt32: a number whose value is an integer of the int32 range
\* and is not minus zero.
IsInt32(h) == h.k = "number" /\ h.n.k = "int" /\ FitsInt32(I64(h.n.hi, h.n.lo))

IsString(h) == h.k = "string"

IsStringObject(h) == h.k = "stringObject"

IsFunction(h) == h.k = "function"

IsArrayBuffer(h) == h.k = "arrayBuffer"

IsObject(h) == h.k \in ObjectKinds

IsArray(h) == h.k = "array"

InternalFieldCount(h) == h.ifc

\* ------------------------------------------------------------------------
\* Native values exchanged with the bridge (constructor arguments, accessor
\* and conversion results, thrown exceptions), as one record shape.
\* ------------------------------------------------------------------------

Native(ty, bv, xv, iv, dv, wv, pv, mv, cv) ==
    [t |-> ty, b |-> bv, x |-> xv, i |-> iv, d |-> dv, w |-> wv, p |-> pv,
     msg |-> mv, code |-> cv]

NBool(b) == Native("bool", b, 0, I64(0, 0), NumZero, HUndefined, NullPtr, "", "")

NInt32(x) == Native("int32", FALSE, x, I64(0, 0), NumZero, HUndefined, NullPtr, "", "")

NInt64(i) == Native("int64", FALSE, 0, i, NumZero, HUndefined, NullPtr, "", "")

NNumber(d) == Native("number", FALSE, 0, I64(0, 0), d, HUndefined, NullPtr, "", "")

\* An Object / Callable wrapper passed by value: the handle it wraps.
NObject(h) == Native("object", FALSE, 0, I64(0, 0), NumZero, h, NullPtr, "", "")

NCallable(h) == Native("callable", FALSE, 0, I64(0, 0), NumZero, h, NullPtr, "", "")

NElement(p) == Native("element", FALSE, 0, I64(0, 0), NumZero, HUndefined, p, "", "")

NNone == Native("none", FALSE, 0, I64(0, 0), NumZero, HUndefined, NullPtr, "", "")

\* THROW_EXCEPTION(lv::Exception, message, code)
Exception(m, c) ==
    Native("exception", FALSE, 0, I64(0, 0), NumZero, HUndefined, NullPtr, m, c)

\* ------------------------------------------------------------------------
\* Bounds and input samples.
\* ------------------------------------------------------------------------

\* Number of Value objects that exist at once.
MaxValues == 2

\* Number of heap cells for owned Object / Callable copies.
MaxWrappers == 2

\* Number of Element objects of the host.
NumElements == 1

\* Number of ScopedValue objects that exist at once.
MaxScoped == 3

\* Number of (LocalValuePrivate, int) allocations.
MaxPairs == 2

VSlots == 1 .. MaxValues

SSlots == 1 .. MaxScoped

PAddrs == 1 .. MaxPairs

WAddrs == 1 .. MaxWrappers

ElementPtrs == 0 .. NumElements

Int32Samples == {0, 42}

\* 2^32 + 5
Int64Samples == {I64(1, 5)}

\* 0.0 and 2.5
NumberSamples == {NumZero, NumHalf(2)}

\* Handles that an Object wrapper is built around: a plain object.
ObjectSamples == {HObject("object", 1, 0, NullPtr)}

\* Handles that a Callable wrapper is built around.
CallableSamples == {HObject("function", 3, 0, NullPtr)}

VARIABLES
    vals,       \* SpecValue: the Value objects, by slot
    wheap,      \* SpecValue: heap cells of the owned Object/Callable copies
    fault,      \* SpecValue: memory fault raised by the last step, if any
    svs,        \* SpecScoped: the ScopedValue objects, by slot
    pairs,      \* SpecScoped: heap of (LocalValuePrivate, int) allocations
    sfault,     \* SpecScoped: memory fault raised by the last step, if any
    origin,     \* SpecConv: what the ScopedValue at hand was built from
    sv,         \* SpecConv: the ScopedValue at hand (its handle)
    res,        \* SpecConv: the last conversion applied to it and its result
    errors,     \* SpecConv: exceptions reported to the engine (throwError)
    segments,   \* Track: where each Segment object is (in the model or not)
    m_activeSegment,    \* Track::m_activeSegment
    m_cursorPosition,   \* Track::m_cursorPosition
    entered,    \* Track: the segments told cursorEnter and not cursorExit since
    lastCall,   \* Track: the last updateCursorPosition call and what it sent
    tfault,     \* Track: a call into a Segment that is no longer there
    m_editingState,     \* DocumentHandler::m_editingState
    lastEdit    \* DocumentHandler: the last change of the editing state

\* ------------------------------------------------------------------------
\* Value (persistent tagged union), value.cpp 369-516
\* ------------------------------------------------------------------------

Stored == {"Boolean", "Integer", "Double", "Object", "Callable", "Element"}

\* union Value::Data: the member that was written and its content.  Only one
\* of i (asInteger), d (asNumber) and p (asObject, asCallable: heap address;
\* asElement: Element pointer) is meaningful.
Data(member, iv, dv, pv) == [m |-> member, i |-> iv, d |-> dv, p |-> pv]

DataInteger(i) == Data("asInteger", i, NumZero, 0)

DataNumber(d) == Data("asNumber", I64(0, 0), d, 0)

DataElement(p) == Data("asElement", I64(0, 0), NumZero, p)

DataPointer(member, a) == Data(member, I64(0, 0), NumZero, a)

\* The pointer seen through m_data.asElement: the stored pointer when the
\* element member was written, otherwise the bits of the other member (a
\* zero integer and +0.0 are all zero bits, that is nullptr; anything else
\* reads as some non null pointer, -1 here).
ReadAsElement(data) ==
    IF data.m = "asElement" THEN data.p
    ELSE IF data.m = "asInteger" THEN (IF data.i = I64(0, 0) THEN NullPtr ELSE -1)
    ELSE IF data.m = "asNumber" THEN (IF data.d = NumZero THEN NullPtr ELSE -1)
    ELSE -1

FreeCell == [st |-> "unalloc", cls |-> "", data |-> HUndefined, from |-> 0]

HasRoom(heap) == \E a \in WAddrs : heap[a].st = "unalloc"

FreshAddr(heap) ==
    CHOOSE a \in WAddrs : /\ heap[a].st = "unalloc"
                          /\ \A b \in WAddrs : b < a => heap[b].st # "unalloc"

\* new Callable(value) / new Object(value): a heap cell holding a copy of the
\* wrapper (the handle it wraps).  from is the address the copy was taken
\* from (0: from a constructor argument); it is bookkeeping only.
NewWrapper(heap, class, h, copied) ==
    [heap EXCEPT ![FreshAddr(heap)] =
        [st |-> "live", cls |-> class, data |-> h, from |-> copied]]

\* delete m_data.asObject / delete m_data.asCallable
DeleteWrapper(heap, a) ==
    [heap EXCEPT ![a] = [FreeCell EXCEPT !.st = "freed"]]

DeadValue == [alive |-> FALSE, m_type |-> "Element", m_data |-> DataElement(NullPtr),
              src |-> NNone]

MkValue(type, data, source) ==
    [alive |-> TRUE, m_type |-> type, m_data |-> data, src |-> source]

\* Value::Value()
ValueDefault == MkValue("Element", DataElement(NullPtr), NElement(NullPtr))

\* Value::Value(bool)
ValueFromBool(b) == MkValue("Boolean", DataInteger(BoolToInt64(b)), NBool(b))

\* Value::Value(Value::Int32)
ValueFromInt32(x) == MkValue("Integer", DataInteger(Int32ToInt64(x)), NInt32(x))

\* Value::Value(Value::Int64)
ValueFromInt64(i) == MkValue("Integer", DataInteger(i), NInt64(i))

\* Value::Value(Value::Number)
ValueFromNumber(d) == MkValue("Double", DataNumber(d), NNumber(d))

\* Value::Value(Element*)
ValueFromElement(p) == MkValue("Element", DataElement(p), NElement(p))

\* Value::Value(Object): the Value, given the heap after the allocation.
ValueFromObject(heap, h) ==
    MkValue("Object", DataPointer("asObject", FreshAddr(heap)), NObject(h))

\* Value::Value(Callable)
ValueFromCallable(heap, h) ==
    MkValue("Callable", DataPointer("asCallable", FreshAddr(heap)), NCallable(h))

\* Outcome of an operation that builds a Value: the Value, the heap after
\* it and the memory fault it ran into ("none" if none).
Built(value, heap, flt) == [v |-> value, heap |-> heap, fault |-> flt]

\* Reading *ptr of a wrapper cell.
ReadFault(heap, a) == IF heap[a].st = "live" THEN "none" ELSE "dangling_read"

\* A copy constructor that copies the union as it is (the pointer, not the
\* wrapper it points to).
ValueCopyCtorShallow(heap, other) ==
    Built(MkValue(other.m_type, other.m_data, other.src), heap, "none")

\* Value::Value(const Value &other)
ValueCopyCtor(heap, other) ==
    LET t == other.m_type
        a == other.m_data.p
    IN  CASE t \in {"Boolean", "Integer"} ->
               Built(MkValue(t, DataInteger(other.m_data.i), other.src), heap, "none")
          [] t = "Double" ->
               Built(MkValue(t, DataNumber(other.m_data.d), other.src), heap, "none")
          [] t = "Object" ->
               Built(MkValue(t, DataPointer("asObject", FreshAddr(heap)), other.src),
                     NewWrapper(heap, "Object", heap[a].data, a), ReadFault(heap, a))
          [] t = "Callable" ->
               Built(MkValue(t, DataPointer("asCallable", FreshAddr(heap)), other.src),
                     NewWrapper(heap, "Callable", heap[a].data, a), ReadFault(heap, a))
          [] t = "Element" ->
               Built(MkValue(t, DataElement(other.m_data.p), other.src), heap, "none")

\* Value::operator=(const Value &other): the tag is overwritten, then the
\* payload is rebuilt from other; the payload held before is not released.
ValueAssignOp(heap, other) ==
    LET t == other.m_type
        a == other.m_data.p
    IN  CASE t \in {"Boolean", "Integer"} ->
               Built(MkValue(t, DataInteger(other.m_data.i), other.src), heap, "none")
          [] t = "Double" ->
               Built(MkValue(t, DataNumber(other.m_data.d), other.src), heap, "none")
          [] t = "Object" ->
               Built(MkValue(t, DataPointer("asObject", FreshAddr(heap)), other.src),
                     NewWrapper(heap, "Object", heap[a].data, a), ReadFault(heap, a))
          [] t = "Callable" ->
               Built(MkValue(t, DataPointer("asCallable", FreshAddr(heap)), other.src),
                     NewWrapper(heap, "Callable", heap[a].data, a), ReadFault(heap, a))
          [] t = "Element" ->
               Built(MkValue(t, DataElement(other.m_data.p), other.src), heap, "none")

\* Value::~Value()
ValueDtor(heap, v) ==
    IF v.m_type \in {"Object", "Callable"}
    THEN Built(DeadValue, DeleteWrapper(heap, v.m_data.p),
               IF heap[v.m_data.p].st = "live" THEN "none" ELSE "double_free")
    ELSE Built(DeadValue, heap, "none")

\* An isNull that tests the pointer without testing the tag.
ValueIsNullNoTag(v) == ReadAsElement(v.m_data) = NullPtr

\* Value::isNull
ValueIsNull(v) == v.m_type = "Element" /\ ReadAsElement(v.m_data) = NullPtr

\* The exceptions of the accessors (message, Exception::toCode("~Value")).
CantCast == [asBool     |-> "Can't cast value into Boolean type",
             asInt32    |-> "Can't cast value into Int32 type",
             asInt64    |-> "Can't cast value into Int64 type",
             asNumber   |-> "Can't cast value into Number type",
             asObject   |-> "Can't cast value into Object type",
             asCallable |-> "Can't cast value into Callable",
             asElement  |-> "Can't cast value into Element"]

Accessors == DOMAIN CantCast

\* An asBool that does not test the tag.
asBoolUnchecked(v) == NBool(Int64ToBool(v.m_data.i))

\* Value::asBool
asBool(v) ==
    IF v.m_type # "Boolean" THEN Exception(CantCast.asBool, "~Value")
    ELSE NBool(Int64ToBool(v.m_data.i))

\* Value::asInt32
asInt32(v) ==
    IF v.m_type # "Integer" THEN Exception(CantCast.asInt32, "~Value")
    ELSE NInt32(Int64ToInt32(v.m_data.i))

\* Value::asInt64
asInt64(v) ==
    IF v.m_type # "Integer" THEN Exception(CantCast.asInt64, "~Value")
    ELSE NInt64(v.m_data.i)

\* An asNumber that accepts the Double tag only.
asNumberDoubleOnly(v) ==
    IF v.m_type = "Double" THEN NNumber(v.m_data.d)
    ELSE Exception(CantCast.asNumber, "~Value")

\* Value::asNumber
asNumber(v) ==
    IF v.m_type = "Double" THEN NNumber(v.m_data.d)
    ELSE IF v.m_type = "Integer" THEN NNumber(Int64ToNumber(v.m_data.i))
    ELSE Exception(CantCast.asNumber, "~Value")

\* Value::asObject: a copy of the owned wrapper.
asObject(heap, v) ==
    IF v.m_type # "Object" THEN Exception(CantCast.asObject, "~Value")
    ELSE NObject(heap[v.m_data.p].data)

\* Value::asCallable
asCallable(heap, v) ==
    IF v.m_type # "Callable" THEN Exception(CantCast.asCallable, "~Value")
    ELSE NCallable(heap[v.m_data.p].data)

\* Value::asElement
asElement(v) ==
    IF v.m_type # "Element" THEN Exception(CantCast.asElement, "~Value")
    ELSE NElement(v.m_data.p)

CallAccessor(heap, v, op) ==
    CASE op = "asBool"     -> asBool(v)
      [] op = "asInt32"    -> asInt32(v)
      [] op = "asInt64"    -> asInt64(v)
      [] op = "asNumber"   -> asNumber(v)
      [] op = "asObject"   -> asObject(heap, v)
      [] op = "asCallable" -> asCallable(heap, v)
      [] op = "asElement"  -> asElement(v)

\* ------------------------------------------------------------------------
\* SpecValue: the life cycle of Value objects.
\* ------------------------------------------------------------------------

valueVars == <<vals, wheap, fault>>

scopedVars == <<svs, pairs, sfault>>

convVars == <<origin, sv, res, errors>>

trackVars == <<segments, m_activeSegment, m_cursorPosition, entered, lastCall, tfault>>

editingVars == <<m_editingState, lastEdit>>

vars == <<valueVars, scopedVars, convVars, trackVars, editingVars>>

\* What the steps of one component leave alone.
otherThanValue == <<scopedVars, convVars, trackVars, editingVars>>

otherThanScoped == <<valueVars, convVars, trackVars, editingVars>>

otherThanConv == <<valueVars, scopedVars, trackVars, editingVars>>

otherThanTrack == <<valueVars, scopedVars, convVars, editingVars>>

otherThanEditing == <<valueVars, scopedVars, convVars, trackVars>>

InitValue ==
    /\ vals = [s \in VSlots |-> DeadValue]
    /\ wheap = [a \in WAddrs |-> FreeCell]
    /\ fault = "none"

\* A scalar, Element or default construction in a free slot.
ConstructScalar(s) ==
    /\ fault = "none"
    /\ ~vals[s].alive
    /\ \E v \in {ValueDefault}
              \cup {ValueFromBool(b) : b \in BOOLEAN}
              \cup {ValueFromInt32(x) : x \in Int32Samples}
              \cup {ValueFromInt64(i) : i \in Int64Samples}
              \cup {ValueFromNumber(d) : d \in NumberSamples}
              \cup {ValueFromElement(p) : p \in ElementPtrs} :
           vals' = [vals EXCEPT ![s] = v]
    /\ UNCHANGED <<wheap, fault>>
    /\ UNCHANGED otherThanValue

\* Value(Object) / Value(Callable) in a free slot.
ConstructWrapper(s) ==
    /\ fault = "none"
    /\ ~vals[s].alive
    /\ HasRoom(wheap)
    /\ \/ \E h \in ObjectSamples :
             /\ vals' = [vals EXCEPT ![s] = ValueFromObject(wheap, h)]
             /\ wheap' = NewWrapper(wheap, "Object", h, 0)
       \/ \E h \in CallableSamples :
             /\ vals' = [vals EXCEPT ![s] = ValueFromCallable(wheap, h)]
             /\ wheap' = NewWrapper(wheap, "Callable", h, 0)
    /\ UNCHANGED fault
    /\ UNCHANGED otherThanValue

NeedsRoom(v) == v.m_type \in {"Object", "Callable"}

\* Value copy(other): copy construction in a free slot.
Copy(s, o) ==
    /\ fault = "none"
    /\ ~vals[s].alive /\ vals[o].alive
    /\ NeedsRoom(vals[o]) => HasRoom(wheap)
    /\ LET r == ValueCopyCtor(wheap, vals[o])
       IN  /\ vals' = [vals EXCEPT ![s] = r.v]
           /\ wheap' = r.heap
           /\ fault' = r.fault
    /\ UNCHANGED otherThanValue

\* vals[s] = vals[o], self assignment included.
Assign(s, o) ==
    /\ fault = "none"
    /\ vals[s].alive /\ vals[o].alive
    /\ NeedsRoom(vals[o]) => HasRoom(wheap)
    /\ LET r == ValueAssignOp(wheap, vals[o])
       IN  /\ vals' = [vals EXCEPT ![s] = r.v]
           /\ wheap' = r.heap
           /\ fault' = r.fault
    /\ UNCHANGED otherThanValue

\* The Value in slot s goes out of scope.
Destroy(s) ==
    /\ fault = "none"
    /\ vals[s].alive
    /\ LET r == ValueDtor(wheap, vals[s])
       IN  /\ vals' = [vals EXCEPT ![s] = r.v]
           /\ wheap' = r.heap
           /\ fault' = r.fault
    /\ UNCHANGED otherThanValue

NextValue ==
    \/ \E s \in VSlots : ConstructScalar(s)
    \/ \E s \in VSlots : ConstructWrapper(s)
    \/ \E s, o \in VSlots : Copy(s, o)
    \/ \E s, o \in VSlots : Assign(s, o)
    \/ \E s \in VSlots : Destroy(s)

\* ------------------------------------------------------------------------
\* Properties of SpecValue
\* ------------------------------------------------------------------------

OwnsWrapper(v) == v.alive /\ v.m_type \in {"Object", "Callable"}

\* C4: a copy of an Object / Callable tagged Value owns its own live copy of
\* the wrapper, whatever was destroyed before: no cell is freed twice or read
\* after it was freed, no two Values share a cell, and the cell of every live
\* Value still holds the wrapper the Value was built around.
C4_IndependentCopies ==
    /\ fault = "none"
    /\ \A s \in VSlots :
          OwnsWrapper(vals[s]) =>
              /\ wheap[vals[s].m_data.p].st = "live"
              /\ wheap[vals[s].m_data.p].cls = vals[s].m_type
              /\ wheap[vals[s].m_data.p].data = vals[s].src.w
    /\ \A s, o \in VSlots :
          OwnsWrapper(vals[s]) /\ OwnsWrapper(vals[o]) /\ s # o =>
              vals[s].m_data.p # vals[o].m_data.p

\* A live Value holds a copy whose original has been destroyed.
C4_Witness ==
    \E s \in VSlots :
        /\ OwnsWrapper(vals[s])
        /\ wheap[vals[s].m_data.p].from # 0
        /\ wheap[wheap[vals[s].m_data.p].from].st = "freed"

\* C6: a Value is null exactly when it stems (through any copies and
\* assignments) from the default constructor or from a null Element pointer,
\* that is when its tag is Element and its pointer is null; a Value of
\* another tag is never null, whatever its payload.
C6_IsNull ==
    \A s \in VSlots :
        vals[s].alive =>
            /\ ValueIsNull(vals[s]) <=> vals[s].src = NElement(NullPtr)
            /\ ValueIsNull(vals[s]) <=>
                   (vals[s].m_type = "Element" /\ vals[s].m_data = DataElement(NullPtr))
            /\ vals[s].m_type # "Element" => ~ValueIsNull(vals[s])
            /\ vals[s] = ValueDefault => ValueIsNull(vals[s])

\* A null Value next to a Value built from false, which is not null.
C6_Witness ==
    \E s, o \in VSlots :
        /\ vals[s].alive /\ ValueIsNull(vals[s])
        /\ vals[o].alive /\ vals[o].src = NBool(FALSE) /\ ~ValueIsNull(vals[o])

\* ------------------------------------------------------------------------
\* ScopedValue: construction, copy, assignment, destruction (value.cpp 27-169)
\* ------------------------------------------------------------------------

\* What the int returned by "new int" may hold before it is first written:
\* the constructors never initialise it, they increment it.
GarbageInts == {-1, 0, 1}

\* Handles the literal constructors wrap.
ScopedSamples == {HUndefined, HBoolean(TRUE)}

\* How many times the allocator hands out the same pair of addresses.
MaxGenerations == 2

\* A pair of allocations made by one constructor: the LocalValuePrivate
\* (dst, data) and the counter (rst, ref).  gen counts the constructors the
\* addresses were handed to; it is bookkeeping only, as is the gen a
\* ScopedValue remembers of the constructor its pair comes from.
FreePair ==
    [dst |-> "unalloc", rst |-> "unalloc", ref |-> 0, data |-> HUndefined, gen |-> 0]

DeadScoped == [alive |-> FALSE, m_d |-> 0, m_ref |-> 0, gen |-> 0]

PairRoom(heap) == \E a \in PAddrs : heap[a].dst = "unalloc"

\* operator new returns addresses that are not allocated: addresses never
\* used before, or the addresses of a pair that has been deleted.
Reusable(heap) ==
    {a \in PAddrs : /\ heap[a].dst = "freed" /\ heap[a].rst = "freed"
                    /\ heap[a].gen < MaxGenerations}

FreshPair(heap) ==
    CHOOSE a \in PAddrs : /\ heap[a].dst = "unalloc"
                          /\ \A b \in PAddrs : b < a => heap[b].dst # "unalloc"

Stepped(value, heap, flt) == [sv |-> value, heap |-> heap, fault |-> flt]

\* ScopedValue::ScopedValue(Engine*, ...): m_d(new LocalValuePrivate(h)),
\* m_ref(new int), ++(*m_ref).  garbage is what the new int held.
\* a is the pair of addresses operator new returned.
ScopedCtor(heap, a, h, garbage) ==
    Stepped([alive |-> TRUE, m_d |-> a, m_ref |-> a, gen |-> heap[a].gen + 1],
            [heap EXCEPT ![a] = [dst |-> "live", rst |-> "live",
                                 ref |-> garbage + 1, data |-> h,
                                 gen |-> heap[a].gen + 1]],
            "none")

NewPairs(heap) ==
    (IF PairRoom(heap) THEN {FreshPair(heap)} ELSE {}) \cup Reusable(heap)

\* ++(*m_ref) / --(*m_ref) on the counter at address a.
Bump(heap, a, delta) == [heap EXCEPT ![a].ref = @ + delta]

CounterFault(heap, a) == IF heap[a].rst = "live" THEN "none" ELSE "use_after_free"

\* delete m_ref; delete m_d;
DeletePair(heap, d, r) ==
    [a \in PAddrs |->
        [heap[a] EXCEPT !.dst = IF a = d THEN "freed" ELSE @,
                        !.rst = IF a = r THEN "freed" ELSE @]]

DeleteFault(heap, d, r) ==
    IF heap[d].dst = "live" /\ heap[r].rst = "live" THEN "none" ELSE "double_free"

\* ScopedValue::ScopedValue(const ScopedValue &other)
ScopedCopyCtor(heap, other) ==
    Stepped([alive |-> TRUE, m_d |-> other.m_d, m_ref |-> other.m_ref,
             gen |-> other.gen],
            Bump(heap, other.m_ref, 1), CounterFault(heap, other.m_ref))

\* --(*m_ref); if ( *m_ref == 0 ){ delete ...; }   (destructor, operator=)
Release(heap, this) ==
    LET dec == Bump(heap, this.m_ref, -1)
    IN  IF CounterFault(heap, this.m_ref) # "none"
        THEN Stepped(DeadScoped, heap, "use_after_free")
        ELSE IF dec[this.m_ref].ref = 0
        THEN Stepped(DeadScoped, DeletePair(dec, this.m_d, this.m_ref),
                     DeleteFault(dec, this.m_d, this.m_ref))
        ELSE Stepped(DeadScoped, dec, "none")

\* ScopedValue::~ScopedValue()
ScopedDtor(heap, this) == Release(heap, this)

\* ScopedValue::operator=(const ScopedValue &other), this != &other
ScopedAssignOp(heap, this, other) ==
    LET rel == Release(heap, this)
    IN  IF rel.fault # "none" THEN Stepped(this, heap, rel.fault)
        ELSE Stepped([alive |-> TRUE, m_d |-> other.m_d, m_ref |-> other.m_ref,
                      gen |-> other.gen],
                     Bump(rel.heap, other.m_ref, 1),
                     CounterFault(rel.heap, other.m_ref))

\* ScopedValue::operator==
ScopedEquals(this, other) == this.m_d = other.m_d /\ this.m_ref = other.m_ref

InitScoped ==
    /\ svs = [s \in SSlots |-> DeadScoped]
    /\ pairs = [a \in PAddrs |-> FreePair]
    /\ sfault = "none"

\* A ScopedValue is constructed in a free slot around a new handle.
SVConstruct(s) ==
    /\ sfault = "none"
    /\ ~svs[s].alive
    /\ \E a \in NewPairs(pairs), h \in ScopedSamples, g \in GarbageInts :
          LET r == ScopedCtor(pairs, a, h, g)
          IN  /\ svs' = [svs EXCEPT ![s] = r.sv]
              /\ pairs' = r.heap
              /\ sfault' = r.fault
    /\ UNCHANGED otherThanScoped

\* A ScopedValue is copy constructed in a free slot.
SVCopy(s, o) ==
    /\ sfault = "none"
    /\ ~svs[s].alive /\ svs[o].alive
    /\ LET r == ScopedCopyCtor(pairs, svs[o])
       IN  /\ svs' = [svs EXCEPT ![s] = r.sv]
           /\ pairs' = r.heap
           /\ sfault' = r.fault
    /\ UNCHANGED otherThanScoped

\* svs[s] = svs[o]; assigning an object to itself changes nothing.
SVAssign(s, o) ==
    /\ sfault = "none"
    /\ svs[s].alive /\ svs[o].alive
    /\ IF s = o THEN UNCHANGED scopedVars
       ELSE LET r == ScopedAssignOp(pairs, svs[s], svs[o])
            IN  /\ svs' = [svs EXCEPT ![s] = r.sv]
                /\ pairs' = r.heap
                /\ sfault' = r.fault
    /\ UNCHANGED otherThanScoped

\* The ScopedValue in slot s goes out of scope.
SVDestroy(s) ==
    /\ sfault = "none"
    /\ svs[s].alive
    /\ LET r == ScopedDtor(pairs, svs[s])
       IN  /\ svs' = [svs EXCEPT ![s] = r.sv]
           /\ pairs' = r.heap
           /\ sfault' = r.fault
    /\ UNCHANGED otherThanScoped

NextScoped ==
    \/ \E s \in SSlots : SVConstruct(s)
    \/ \E s, o \in SSlots : SVCopy(s, o)
    \/ \E s, o \in SSlots : SVAssign(s, o)
    \/ \E s \in SSlots : SVDestroy(s)

Sharers(a) == {s \in SSlots : svs[s].alive /\ svs[s].m_d = a}

\* C2: a pair shared by at least one live ScopedValue is not freed; a pair
\* that no live ScopedValue shares any more has been freed; no pair is freed
\* twice and none is used after it was freed.
C2_SharedPairLifetime ==
    /\ sfault = "none"
    /\ \A a \in PAddrs :
          pairs[a].dst # "unalloc" =>
              IF Sharers(a) # {}
              THEN pairs[a].dst = "live" /\ pairs[a].rst = "live"
              ELSE pairs[a].dst = "freed" /\ pairs[a].rst = "freed"

\* ------------------------------------------------------------------------
\* ScopedValue: predicates and conversions (value.cpp 92-129, 175-361)
\* ------------------------------------------------------------------------

\* Number of exceptions the engine's error channel keeps in the model.
MaxReports == 2

EmptyHeap == [a \in WAddrs |-> FreeCell]

\* The engine object that stands for the Element p (the element <-> handle
\* registry): an object with one internal field that records p.
ElementObject(p) == HObject("object", 10 + p, 1, p)

\* ElementPrivate::localObject
localObject(p) == IF p = NullPtr THEN HUndefined ELSE ElementObject(p)

\* ElementPrivate::elementFromObject
elementFromObject(vo) ==
    IF InternalFieldCount(vo) = 0 THEN Exception("InvalidCast", "")
    ELSE NElement(vo.ptr)

\* Object::operator== / Callable::operator==: the same engine object.
WrapperEquals(a, b) == a = b

\* A V8 API check that fails aborts the process.
Fatal == Native("fatal", FALSE, 0, I64(0, 0), NumZero, HUndefined, NullPtr, "", "")

\* v8::Local<T>::Cast of a handle that is of shape T is the handle; of
\* another shape it is unchecked (the handle is used as it is) unless the
\* engine was built with handle checks, and then the process aborts.
CastAborts(h, ok) == IF ok THEN {} ELSE {Fatal}

\* ScopedValue::isNull
isNull(h) == IsNull(h)

\* ScopedValue::isBool
isBool(h) == IsBoolean(h)

\* ScopedValue::isInt
isInt(h) == IsInt32(h)

\* ScopedValue::isNumber
isNumber(h) == IsNumber(h)

\* ScopedValue::isString
isString(h) == IsStringObject(h) \/ IsString(h)

\* ScopedValue::isCallable
isCallable(h) == IsFunction(h)

\* ScopedValue::isBuffer
isBuffer(h) == IsArrayBuffer(h)

\* ScopedValue::isObject
isObject(h) == IsObject(h)

\* ScopedValue::isArray
isArray(h) == IsArray(h)

\* An isElement that takes every object for an element.
isElementAnyObject(h) == IsObject(h)

\* An isElement that accepts any object that has internal fields.
isElementAnyFieldCount(h) == IF ~IsObject(h) THEN FALSE ELSE InternalFieldCount(h) >= 1

\* ScopedValue::isElement
isElement(h) == IF ~IsObject(h) THEN FALSE ELSE InternalFieldCount(h) = 1

\* v8::Value::BooleanValue: false for undefined, null, false, 0, -0, NaN and
\* the empty string (id 0), true for everything else.
BooleanValue(h) ==
    CASE h.k \in {"undefined", "null"} -> FALSE
      [] h.k = "boolean" -> h.b
      [] h.k = "number" -> ~(h.n \in {NumZero, NumNegZero, NumNaN})
      [] h.k = "string" -> h.id # 0
      [] OTHER -> TRUE

\* ScopedValue::toBool
toBool(h) == BooleanValue(h)

\* ScopedValue::toInt32 of a number handle: ToInt32 truncates and keeps the
\* low 32 bits.  (Other shapes go through the engine's coercion, which no
\* modelled operation relies on.)
toInt32(h) ==
    CASE h.n.k = "int" -> h.n.lo
      [] h.n.k = "half" -> IF h.n.hi >= 0 THEN h.n.lo
                           ELSE IF h.n.lo = MaxInt32 THEN MinInt32 ELSE h.n.lo + 1
      [] OTHER -> 0

\* ScopedValue::toNumber of a number handle.
toNumber(h) == h.n

\* ScopedValue::toCallable: Callable(engine, Cast(handle)).
toCallable(h) == {NCallable(h)} \cup CastAborts(h, IsFunction(h))

\* A toObject without the test for element objects.
toObjectNoElementTest(h) ==
    IF isString(h) /\ ~isObject(h)
    THEN {NObject(HObject("stringObject", h.id, 0, NullPtr))}
    ELSE {NObject(h)} \cup CastAborts(h, IsObject(h))

\* ScopedValue::toObject
toObject(h) ==
    IF isString(h) /\ ~isObject(h)
    THEN {NObject(HObject("stringObject", h.id, 0, NullPtr))}
    ELSE IF InternalFieldCount(h) = 1
         THEN {Exception("Converting object of Element type to Object.", "1")}
         ELSE {NObject(h)} \cup CastAborts(h, IsObject(h))

\* ScopedValue::toElement
toElement(h) ==
    IF IsNullOrUndefined(h) THEN {NElement(NullPtr)}
    ELSE {elementFromObject(h)} \cup CastAborts(h, IsObject(h))

\* The only result of a conversion that cannot abort.
Only(outcomes) == CHOOSE r \in outcomes : TRUE

\* Value(Object) / Value(Callable) on a heap of its own.
BuiltFromObject(h) ==
    Built(ValueFromObject(EmptyHeap, h), NewWrapper(EmptyHeap, "Object", h, 0), "none")

BuiltFromCallable(h) ==
    Built(ValueFromCallable(EmptyHeap, h), NewWrapper(EmptyHeap, "Callable", h, 0), "none")

BuiltScalar(v) == Built(v, EmptyHeap, "none")

\* ScopedValue::toValue: the Value and the heap that holds its wrapper copy.
toValue(h) ==
    IF isBool(h) THEN BuiltScalar(ValueFromBool(toBool(h)))
    ELSE IF isInt(h) THEN BuiltScalar(ValueFromInt32(toInt32(h)))
    ELSE IF isNumber(h) THEN BuiltScalar(ValueFromNumber(toNumber(h)))
    ELSE IF isString(h) THEN BuiltFromObject(Only(toObject(h)).w)
    ELSE IF isElement(h) THEN BuiltScalar(ValueFromElement(Only(toElement(h)).p))
    ELSE IF isCallable(h) THEN BuiltFromCallable(Only(toCallable(h)).w)
    ELSE IF isObject(h) THEN BuiltFromObject(Only(toObject(h)).w)
    ELSE BuiltScalar(ValueDefault)

\* v8::Integer::New(isolate, int32_t): the argument arrives as an int32_t.
IntegerNew(i) == HNumber(NumInt(Int32ToInt64(Int64ToInt32(i))))

\* Outcome of a ScopedValue constructor: the object around its handle, or
\* the exception it threw.
Constructed(h) == [st |-> "built", data |-> h, exc |-> NNone]

Threw(e) == [st |-> "threw", data |-> HUndefined, exc |-> e]

NoScoped == [st |-> "none", data |-> HUndefined, exc |-> NNone]

\* ScopedValue::ScopedValue(Engine*, const Value&)
ScopedFromValue(heap, value) ==
    CASE value.m_type = "Boolean"  -> Constructed(HBoolean(asBool(value).b))
      [] value.m_type = "Integer"  -> Constructed(IntegerNew(asInt64(value).i))
      [] value.m_type = "Double"   -> Constructed(HNumber(asNumber(value).d))
      [] value.m_type = "Object"   -> Constructed(asObject(heap, value).w)
      [] value.m_type = "Callable" -> Constructed(asCallable(heap, value).w)
      [] value.m_type = "Element"  ->
             IF ValueIsNull(value) THEN Constructed(HUndefined)
             ELSE Constructed(localObject(asElement(value).p))
      [] OTHER -> Threw(Exception("Invalid Value type", "~LocalValue"))

\* ScopedValue::ScopedValue(Engine*, Element*)
ScopedFromElement(p) == Constructed(localObject(p))

\* ScopedValue::ScopedValue(const v8::Local<v8::Value>&)
ScopedFromHandle(h) == Constructed(h)

\* Value::operator==, each operand with the heap of its wrapper copy.
\* An operator== that compares the payloads without comparing the tags.
ValueEqualsNoTag(ha, a, hb, b) ==
    CASE a.m_type \in {"Boolean", "Integer"} -> a.m_data.i = b.m_data.i
      [] a.m_type = "Double" -> NumEq(a.m_data.d, b.m_data.d)
      [] a.m_type \in {"Object", "Callable"} ->
             b.m_type \in {"Object", "Callable"}
             /\ WrapperEquals(ha[a.m_data.p].data, hb[b.m_data.p].data)
      [] a.m_type = "Element" -> a.m_data.p = b.m_data.p
      [] OTHER -> FALSE

\* Value::operator==, on a Value of heap ha and a Value of heap hb.
ValueEquals(ha, a, hb, b) ==
    IF a.m_type # b.m_type THEN FALSE
    ELSE CASE a.m_type \in {"Boolean", "Integer"} -> a.m_data.i = b.m_data.i
           [] a.m_type = "Double" -> NumEq(a.m_data.d, b.m_data.d)
           [] a.m_type \in {"Object", "Callable"} ->
                  WrapperEquals(ha[a.m_data.p].data, hb[b.m_data.p].data)
           [] a.m_type = "Element" -> a.m_data.p = b.m_data.p
           [] OTHER -> FALSE

\* Outcome of convertFromV8<Element*>: what it returns (or throws) and what
\* it hands to Engine::throwError.
Converted(result, reported) == [ret |-> result, reported |-> reported]

NotAnElement == Exception("Given value is not an Element", "~Value")

\* A convertFromV8<Element*> that returns nullptr without telling the engine.
convertFromV8ElementSilent(value) ==
    IF IsNullOrUndefined(value) \/ InternalFieldCount(value) # 1
    THEN {Converted(NElement(NullPtr), <<>>)}
    ELSE {Converted(NElement(value.ptr), <<>>)}

\* template<> Element *convertFromV8(Engine *e, const v8::Local<v8::Value>&)
convertFromV8Element(value) ==
    IF IsNullOrUndefined(value) THEN {Converted(NElement(NullPtr), <<>>)}
    ELSE IF InternalFieldCount(value) # 1
         THEN {Converted(NElement(NullPtr), <<NotAnElement>>)}
              \cup {Converted(f, <<>>) : f \in CastAborts(value, IsObject(value))}
         ELSE {Converted(NElement(value.ptr), <<>>)}

\* ------------------------------------------------------------------------
\* SpecConv: one ScopedValue is built, classified and converted.
\* ------------------------------------------------------------------------

\* 0, 42, -1
ConvInt32Samples == {0, 42, -1}

\* 42, 2^32 + 5, 2^53 + 1, -2^63
ConvInt64Samples == {I64(0, 42), I64(1, 5), I64(2097152, 1), I64(MinInt32, 0)}

\* 0.0, 2.0, 2.5, 2^31, -0.0 and NaN
ConvNumberSamples ==
    {NumZero, NumInt(I64(0, 2)), NumHalf(2), NumInt(I64(0, MinInt32)),
     NumNegZero, NumNaN}

\* Two plain objects and two functions.
ConvObjectSamples == ObjectSamples \cup {HObject("object", 2, 0, NullPtr)}

ConvCallableSamples == CallableSamples \cup {HObject("function", 4, 0, NullPtr)}

\* The persistent Values a ScopedValue is built from.
ConvValues ==
    {BuiltScalar(ValueDefault)}
    \cup {BuiltScalar(ValueFromBool(b)) : b \in BOOLEAN}
    \cup {BuiltScalar(ValueFromInt32(x)) : x \in ConvInt32Samples}
    \cup {BuiltScalar(ValueFromInt64(i)) : i \in ConvInt64Samples}
    \cup {BuiltScalar(ValueFromNumber(d)) : d \in ConvNumberSamples}
    \cup {BuiltScalar(ValueFromElement(p)) : p \in ElementPtrs}
    \cup {BuiltFromObject(h) : h \in ConvObjectSamples}
    \cup {BuiltFromCallable(h) : h \in ConvCallableSamples}

\* Engine handles of every shape: undefined, null, a boolean, an int32 and a
\* fractional number, the empty and a non empty string, a symbol, a string
\* object, a plain object, the object of Element 1, an object with two
\* internal fields, an array, a function and an array buffer.
HandleSamples ==
    {HUndefined, HNull, HBoolean(TRUE), HNumber(NumInt(I64(0, 7))), HNumber(NumHalf(2)),
     HString(0), HString(1), HSymbol(1),
     HObject("stringObject", 2, 0, NullPtr), HObject("object", 3, 0, NullPtr),
     ElementObject(1), HObject("object", 5, 2, NullPtr),
     HObject("array", 6, 0, NullPtr), HObject("function", 7, 0, NullPtr),
     HObject("arrayBuffer", 8, 0, NullPtr)}

Origin(how, value, pv, hv) == [by |-> how, v |-> value, p |-> pv, h |-> hv]

NoOrigin == Origin("none", BuiltScalar(ValueDefault), NullPtr, HUndefined)

Predicates(h) ==
    [isNull |-> isNull(h), isBool |-> isBool(h), isInt |-> isInt(h),
     isNumber |-> isNumber(h), isString |-> isString(h), isCallable |-> isCallable(h),
     isBuffer |-> isBuffer(h), isObject |-> isObject(h), isArray |-> isArray(h),
     isElement |-> isElement(h)]

\* The last operation: its name, the native result (or exception), the Value
\* toValue returned (for operator==: the right operand), the predicates, and
\* what was handed to throwError.
Result(name, native, value, ps, reported) ==
    [op |-> name, nat |-> native, val |-> value, preds |-> ps, rep |-> reported]

NoResult == Result("", NNone, BuiltScalar(ValueDefault), Predicates(HUndefined), <<>>)

NativeResult(name, native) ==
    Result(name, native, BuiltScalar(ValueDefault), Predicates(HUndefined), <<>>)

InitConv ==
    /\ origin = NoOrigin
    /\ sv = NoScoped
    /\ res = NoResult
    /\ errors = <<>>

Running == res.nat # Fatal

\* ScopedValue(engine, value) for a persistent Value.
FromValue ==
    /\ Running /\ sv.st = "none"
    /\ \E in \in ConvValues :
          /\ origin' = Origin("value", in, NullPtr, HUndefined)
          /\ sv' = ScopedFromValue(in.heap, in.v)
    /\ res' = NoResult
    /\ UNCHANGED errors
    /\ UNCHANGED otherThanConv

\* ScopedValue(engine, element) for an Element pointer.
FromElement ==
    /\ Running /\ sv.st = "none"
    /\ \E p \in ElementPtrs :
          /\ origin' = Origin("element", BuiltScalar(ValueDefault), p, HUndefined)
          /\ sv' = ScopedFromElement(p)
    /\ res' = NoResult
    /\ UNCHANGED errors
    /\ UNCHANGED otherThanConv

\* ScopedValue(handle) for a handle that comes from the engine.
FromHandle ==
    /\ Running /\ sv.st = "none"
    /\ \E h \in HandleSamples :
          /\ origin' = Origin("handle", BuiltScalar(ValueDefault), NullPtr, h)
          /\ sv' = ScopedFromHandle(h)
    /\ res' = NoResult
    /\ UNCHANGED errors
    /\ UNCHANGED otherThanConv

\* The ScopedValue at hand is destroyed (or its constructor has thrown).
Discard ==
    /\ Running /\ sv.st # "none"
    /\ origin' = NoOrigin
    /\ sv' = NoScoped
    /\ res' = NoResult
    /\ UNCHANGED errors
    /\ UNCHANGED otherThanConv

\* All shape predicates are evaluated.
Classify ==
    /\ Running /\ sv.st = "built"
    /\ res' = Result("classify", NNone, BuiltScalar(ValueDefault), Predicates(sv.data), <<>>)
    /\ UNCHANGED <<origin, sv, errors>>
    /\ UNCHANGED otherThanConv

ToBool ==
    /\ Running /\ sv.st = "built"
    /\ res' = NativeResult("toBool", NBool(toBool(sv.data)))
    /\ UNCHANGED <<origin, sv, errors>>
    /\ UNCHANGED otherThanConv

ToObject ==
    /\ Running /\ sv.st = "built"
    /\ \E r \in toObject(sv.data) : res' = NativeResult("toObject", r)
    /\ UNCHANGED <<origin, sv, errors>>
    /\ UNCHANGED otherThanConv

ToElement ==
    /\ Running /\ sv.st = "built"
    /\ \E r \in toElement(sv.data) : res' = NativeResult("toElement", r)
    /\ UNCHANGED <<origin, sv, errors>>
    /\ UNCHANGED otherThanConv

ToValue ==
    /\ Running /\ sv.st = "built"
    /\ res' = Result("toValue", NNone, toValue(sv.data), Predicates(HUndefined), <<>>)
    /\ UNCHANGED <<origin, sv, errors>>
    /\ UNCHANGED otherThanConv

\* An accessor is called on the persistent Value the ScopedValue was built
\* from.
AccessValue ==
    /\ Running /\ origin.by = "value"
    /\ \E op \in Accessors :
          res' = NativeResult(op, CallAccessor(origin.v.heap, origin.v.v, op))
    /\ UNCHANGED <<origin, sv, errors>>
    /\ UNCHANGED otherThanConv

\* The persistent Value is compared (operator==) with a Value constructed
\* independently of it.
CompareValues ==
    /\ Running /\ origin.by = "value"
    /\ \E other \in ConvValues :
          res' = Result("operator==",
                        NBool(ValueEquals(origin.v.heap, origin.v.v, other.heap, other.v)),
                        other, Predicates(HUndefined), <<>>)
    /\ UNCHANGED <<origin, sv, errors>>
    /\ UNCHANGED otherThanConv

\* The persistent Value is compared with a copy of itself, made by the copy
\* constructor or by assignment to a default constructed Value.
CompareWithCopy ==
    /\ Running /\ origin.by = "value"
    /\ \E copy \in {ValueCopyCtor(origin.v.heap, origin.v.v),
                     ValueAssignOp(origin.v.heap, origin.v.v)} :
          res' = Result("copy==",
                        NBool(ValueEquals(copy.heap, origin.v.v, copy.heap, copy.v)),
                        copy, Predicates(HUndefined), <<>>)
    /\ UNCHANGED <<origin, sv, errors>>
    /\ UNCHANGED otherThanConv

\* convertFromV8<Element*>(engine, handle)
ConvertFromV8 ==
    /\ Running /\ sv.st = "built"
    /\ Len(errors) < MaxReports
    /\ \E c \in convertFromV8Element(sv.data) :
          /\ res' = Result("convertFromV8", c.ret, BuiltScalar(ValueDefault),
                           Predicates(HUndefined), c.reported)
          /\ errors' = errors \o c.reported
    /\ UNCHANGED <<origin, sv>>
    /\ UNCHANGED otherThanConv

NextConv ==
    \/ FromValue
    \/ FromElement
    \/ FromHandle
    \/ Discard
    \/ Classify
    \/ ToBool
    \/ ToObject
    \/ ToElement
    \/ ToValue
    \/ AccessValue
    \/ CompareValues
    \/ CompareWithCopy
    \/ ConvertFromV8

\* ------------------------------------------------------------------------
\* Track (plugins/timeline/src/track.cpp): the segments of a track and the
\* cursor notifications sent to them.
\* ------------------------------------------------------------------------

\* Number of Segment objects that exist over a run.
NumSegments == 3

\* The cursor positions asked for: -1 .. MaxPosition.
MaxPosition == 4

SegIds == 1 .. NumSegments

Positions == -1 .. MaxPosition

\* nullptr
NoSegment == 0

\* Segment::position, Segment::length: segments 1 and 2 are adjacent
\* ([0,2) and [2,4)), segment 3 ([1,3)) overlaps both, segment 4 is [3,5).
SegmentPosition(s) == (2 * ((s - 1) % 2)) + (((s - 1) \div 2) % 2)

SegmentLength(s) == 2

\* Segment::contains
contains(s, position) ==
    position >= SegmentPosition(s) /\ position < SegmentPosition(s) + SegmentLength(s)

\* A Segment object is "unborn" (not created yet), "detached" (it exists
\* outside the model), "held" (in the segment model) or "gone" (removed by
\* clearSegments, which disposes of the segments it removes).
Held(segs) == {s \in SegIds : segs[s] = "held"}

Overlap(s, o) ==
    /\ SegmentPosition(s) < SegmentPosition(o) + SegmentLength(o)
    /\ SegmentPosition(o) < SegmentPosition(s) + SegmentLength(s)

\* SegmentModel::addSegment: a segment that overlaps a held one is refused.
CanAdd(segs, s) == \A o \in Held(segs) : ~Overlap(s, o)

modelAddSegment(segs, s) == IF CanAdd(segs, s) THEN [segs EXCEPT ![s] = "held"] ELSE segs

\* SegmentModel::takeSegment: the segment, or nullptr if it is not held.
modelTakeSegment(segs, s) == IF segs[s] = "held" THEN [segs EXCEPT ![s] = "detached"] ELSE segs

\* SegmentModel::clearSegments
modelClearSegments(segs) == [s \in SegIds |-> IF segs[s] = "held" THEN "gone" ELSE segs[s]]

\* SegmentModel::segmentThatWraps
segmentThatWraps(segs, position) ==
    IF \E s \in Held(segs) : contains(s, position)
    THEN CHOOSE s \in Held(segs) :
            /\ contains(s, position)
            /\ \A o \in Held(segs) : contains(o, position) => SegmentPosition(s) <= SegmentPosition(o)
    ELSE NoSegment

\* A notification sent to a segment: its kind and the position relative to
\* the segment (0 for cursorExit, which carries none).
Note(s, kind, rel) == [seg |-> s, op |-> kind, at |-> rel]

\* Outcome of updateCursorPosition: the notifications in the order they are
\* sent, and the fields after the call.
Updated(sent, active, position) == [notes |-> sent, active |-> active, cursor |-> position]

\* An updateCursorPosition that enters the new segment before it leaves the
\* old one.
updateCursorPositionEnterFirst(segs, active, cursor, newPosition) ==
    LET segm == segmentThatWraps(segs, newPosition)
    IN  IF active # NoSegment /\ contains(active, newPosition)
        THEN Updated(<<Note(active, IF newPosition = cursor + 1 THEN "cursorNext"
                                    ELSE "cursorMove",
                            newPosition - SegmentPosition(active))>>,
                     active, newPosition)
        ELSE Updated((IF segm # NoSegment
                      THEN <<Note(segm, "cursorEnter", newPosition - SegmentPosition(segm))>>
                      ELSE <<>>)
                     \o (IF active # NoSegment THEN <<Note(active, "cursorExit", 0)>>
                         ELSE <<>>),
                     segm, newPosition)

\* Track::updateCursorPosition
updateCursorPosition(segs, active, cursor, newPosition) ==
    LET stays == active # NoSegment /\ contains(active, newPosition)
        first == IF active = NoSegment THEN <<>>
                 ELSE IF stays
                 THEN <<Note(active, IF newPosition = cursor + 1 THEN "cursorNext"
                                     ELSE "cursorMove",
                             newPosition - SegmentPosition(active))>>
                 ELSE <<Note(active, "cursorExit", 0)>>
        left == IF stays THEN active ELSE NoSegment
        segm == segmentThatWraps(segs, newPosition)
        second == IF left = NoSegment /\ segm # NoSegment
                  THEN <<Note(segm, "cursorEnter", newPosition - SegmentPosition(segm))>>
                  ELSE <<>>
    IN  Updated(first \o second, IF left = NoSegment THEN segm ELSE left, newPosition)

\* The segments that are inside (told cursorEnter, not cursorExit since)
\* after the notifications of one call.
RECURSIVE Replay(_, _)
Replay(inside, sent) ==
    IF sent = <<>> THEN inside
    ELSE Replay(CASE Head(sent).op = "cursorEnter" -> inside \cup {Head(sent).seg}
                  [] Head(sent).op = "cursorExit" -> inside \ {Head(sent).seg}
                  [] OTHER -> inside,
                Tail(sent))

Call(position, before, inside, sent) ==
    [made |-> TRUE, req |-> position, activeBefore |-> before, inside |-> inside,
     notes |-> sent]

NoCall == [made |-> FALSE, req |-> 0, activeBefore |-> NoSegment, inside |-> {},
           notes |-> <<>>]

\* Track::Track
InitTrack ==
    /\ segments = [s \in SegIds |-> "unborn"]
    /\ m_activeSegment = NoSegment
    /\ m_cursorPosition = 0
    /\ entered = {}
    /\ lastCall = NoCall
    /\ tfault = "none"

\* Track::addSegment(segment) for a segment created by the caller or taken
\* from the track before.
AddSegment(s) ==
    /\ tfault = "none"
    /\ segments[s] \in {"unborn", "detached"}
    /\ segments' = (IF CanAdd(segments, s) THEN modelAddSegment(segments, s)
                    ELSE [segments EXCEPT ![s] = "detached"])
    /\ UNCHANGED <<m_activeSegment, m_cursorPosition, entered, lastCall, tfault>>
    /\ UNCHANGED otherThanTrack

\* Track::takeSegment(segment)
TakeSegment(s) ==
    /\ tfault = "none"
    /\ segments[s] \in {"detached", "held"}
    /\ segments' = modelTakeSegment(segments, s)
    /\ UNCHANGED <<m_activeSegment, m_cursorPosition, entered, lastCall, tfault>>
    /\ UNCHANGED otherThanTrack

\* Track::clearSegments (the list property's clear function)
ClearSegments ==
    /\ tfault = "none"
    /\ segments' = modelClearSegments(segments)
    /\ UNCHANGED <<m_activeSegment, m_cursorPosition, entered, lastCall, tfault>>
    /\ UNCHANGED otherThanTrack

\* Adding the segments of the set S to the model in the order of their ids.
RECURSIVE AddAll(_, _)
AddAll(segs, S) ==
    IF S = {} THEN segs
    ELSE LET s == CHOOSE x \in S : \A y \in S : x <= y
         IN  AddAll(IF CanAdd(segs, s) THEN modelAddSegment(segs, s)
                    ELSE [segs EXCEPT ![s] = "detached"],
                    S \ {s})

\* Track::deserialize: the model is cleared, then one new Segment per node
\* is created and added.
Deserialize(S) ==
    /\ tfault = "none"
    /\ \A s \in S : segments[s] = "unborn"
    /\ segments' = AddAll(modelClearSegments(segments), S)
    /\ UNCHANGED <<m_activeSegment, m_cursorPosition, entered, lastCall, tfault>>
    /\ UNCHANGED otherThanTrack

\* Track::updateCursorPosition(newPosition).  When m_activeSegment points to
\* a segment that is gone the call reads a disposed object: it goes on with
\* what it reads there, or it ends the program.
UpdateCursorPosition(newPosition) ==
    /\ tfault = "none"
    /\ LET u == updateCursorPosition(segments, m_activeSegment, m_cursorPosition, newPosition)
           dangling == m_activeSegment # NoSegment /\ segments[m_activeSegment] = "gone"
       IN  \/ /\ m_activeSegment' = u.active
              /\ m_cursorPosition' = u.cursor
              /\ entered' = Replay(entered, u.notes)
              /\ lastCall' = Call(newPosition, m_activeSegment, entered, u.notes)
              /\ UNCHANGED tfault
           \/ /\ dangling
              /\ tfault' = "use_after_free"
              /\ UNCHANGED <<m_activeSegment, m_cursorPosition, entered, lastCall>>
    /\ UNCHANGED segments
    /\ UNCHANGED otherThanTrack

NextTrack ==
    \/ \E s \in SegIds : AddSegment(s)
    \/ \E s \in SegIds : TakeSegment(s)
    \/ ClearSegments
    \/ \E S \in SUBSET SegIds : Deserialize(S)
    \/ \E p \in Positions : UpdateCursorPosition(p)

\* ------------------------------------------------------------------------
\* DocumentHandler (lib/lveditor/src/documenthandler.h): the editing state,
\* a set of flags kept in one int.
\* ------------------------------------------------------------------------

\* enum DocumentHandler::EditingState
Manual == 0

Assisted == 1

Silent == 2

Palette == 6

Runtime == 10

Read == 16

EditingState == {Manual, Assisted, Silent, Palette, Runtime, Read}

\* a & b and a | b of two non negative ints.
RECURSIVE BitAnd(_, _)
BitAnd(a, b) ==
    IF a = 0 \/ b = 0 THEN 0
    ELSE ((a % 2) * (b % 2)) + (2 * BitAnd(a \div 2, b \div 2))

BitOr(a, b) == (a + b) - BitAnd(a, b)

\* a & ~b
BitClear(a, b) == a - BitAnd(a, b)

\* DocumentHandler::editingStateIs, on the editing state m
editingStateIs(m, flag) == BitAnd(flag, m) = flag

\* DocumentHandler::addEditingState
addEditingState(m, state) == BitOr(m, state)

\* A removeEditingState that does not put Silent back.
removeEditingStateNoRestore(m, state) ==
    IF BitAnd(m, state) # 0 THEN BitClear(m, state) ELSE m

\* DocumentHandler::removeEditingState
removeEditingState(m, state) ==
    IF BitAnd(m, state) # 0
    THEN LET restoreSilent == editingStateIs(m, BitOr(Palette, Runtime))
             cleared == BitClear(m, state)
         IN  IF restoreSilent THEN BitOr(cleared, Silent) ELSE cleared
    ELSE m

\* DocumentHandler::resetEditingState
resetEditingState == 0

Edit(name, state, before) == [op |-> name, arg |-> state, before |-> before]

InitEditing ==
    /\ m_editingState = 0
    /\ lastEdit = Edit("", Manual, 0)

AddEditingState(state) ==
    /\ m_editingState' = addEditingState(m_editingState, state)
    /\ lastEdit' = Edit("add", state, m_editingState)
    /\ UNCHANGED otherThanEditing

RemoveEditingState(state) ==
    /\ m_editingState' = removeEditingState(m_editingState, state)
    /\ lastEdit' = Edit("remove", state, m_editingState)
    /\ UNCHANGED otherThanEditing

ResetEditingState ==
    /\ m_editingState' = resetEditingState
    /\ lastEdit' = Edit("reset", Manual, m_editingState)
    /\ UNCHANGED otherThanEditing

NextEditing ==
    \/ \E state \in EditingState : AddEditingState(state)
    \/ \E state \in EditingState : RemoveEditingState(state)
    \/ ResetEditingState

\* ------------------------------------------------------------------------
\* Specifications
\* ------------------------------------------------------------------------

Init == InitValue /\ InitScoped /\ InitConv /\ InitTrack /\ InitEditing

SpecValue == Init /\ [][NextValue]_vars

SpecScoped == Init /\ [][NextScoped]_vars

SpecConv == Init /\ [][NextConv]_vars

SpecTrack == Init /\ [][NextTrack]_vars

SpecEditing == Init /\ [][NextEditing]_vars

\* ------------------------------------------------------------------------
\* Properties of SpecConv
\* ------------------------------------------------------------------------

\* The accessor that corresponds to the native type a Value was built from.
Corresponding ==
    [bool |-> "asBool", int32 |-> "asInt32", int64 |-> "asInt64", number |-> "asNumber",
     object |-> "asObject", callable |-> "asCallable", element |-> "asElement"]

TypeMismatch(op) == Exception(CantCast[op], "~Value")

\* C1 as stated: on a Value built from payload P the corresponding accessor
\* returns P unchanged and every other accessor fails with TypeMismatch.
C1_AsStated ==
    res.op \in Accessors =>
        res.nat = IF res.op = Corresponding[origin.v.v.src.t] THEN origin.v.v.src
                  ELSE TypeMismatch(res.op)

\* What the accessors of an Integer tagged Value built from src return.
IntegerAccess(src, op) ==
    LET i == IF src.t = "int32" THEN Int32ToInt64(src.x) ELSE src.i
    IN  CASE op = "asInt32"  -> NInt32(Int64ToInt32(i))
          [] op = "asInt64"  -> NInt64(i)
          [] op = "asNumber" -> NNumber(Int64ToNumber(i))

\* C1 (amended): the corresponding accessor returns the payload unchanged; an
\* accessor of another tag fails with TypeMismatch; on an Integer tagged
\* Value asInt32, asInt64 and asNumber all succeed, returning the stored
\* integer narrowed to 32 bits, as it is, and widened to a double.
C1_Accessors ==
    res.op \in Accessors =>
        LET src == origin.v.v.src
        IN  res.nat =
                IF res.op = Corresponding[src.t] THEN src
                ELSE IF src.t \in {"int32", "int64"}
                        /\ res.op \in {"asInt32", "asInt64", "asNumber"}
                     THEN IntegerAccess(src, res.op)
                ELSE TypeMismatch(res.op)

\* asBool() was called on Value(Int32(42)) and threw.
C1_Witness ==
    /\ res.op = "asBool"
    /\ origin.v.v.src = NInt32(42)
    /\ asInt32(origin.v.v) = NInt32(42)
    /\ res.nat = TypeMismatch("asBool")

\* C3 as stated: a Value tagged Boolean, Integer, Double or Element that is
\* turned into a ScopedValue and back with toValue comes back equal
\* (operator==) to the original.
C3_RoundTrip ==
    /\ res.op = "toValue"
    /\ origin.by = "value"
    /\ origin.v.v.m_type \in {"Boolean", "Integer", "Double", "Element"}
    => ValueEquals(origin.v.heap, origin.v.v, res.val.heap, res.val.v)

BuiltFromNull ==
    \/ origin.by = "element" /\ origin.p = NullPtr
    \/ origin.by = "value" /\ ValueIsNull(origin.v.v)

\* C5 as stated: a ScopedValue built from a null Element pointer, or from a
\* null Value, reports isNull() and toElement() returns nullptr.
C5_NullElement ==
    BuiltFromNull =>
        /\ res.op = "classify" => res.preds.isNull
        /\ res.op = "toElement" => res.nat = NElement(NullPtr)

\* The Object / Callable wrapper a Value owns.
OwnedWrapper(b) == b.heap[b.v.m_data.p].data

\* C7: toValue gives a boolean handle a Boolean Value, an int32 number an
\* Integer, any other number a Double, a string (boxed) and an object that
\* is neither an element nor a function an Object, an object with exactly
\* one internal field the Element recorded in it, a function a Callable,
\* and undefined, null or any other handle the null Value.
C7_ToValueShapes ==
    res.op = "toValue" =>
        LET h == sv.data
            r == res.val.v
        IN  CASE h.k = "boolean" ->
                   r.m_type = "Boolean" /\ r.m_data.i = BoolToInt64(h.b)
              [] h.k = "number" /\ h.n.k = "int" /\ FitsInt32(I64(h.n.hi, h.n.lo)) ->
                   r.m_type = "Integer" /\ r.m_data.i = I64(h.n.hi, h.n.lo)
              [] h.k = "number" /\ ~(h.n.k = "int" /\ FitsInt32(I64(h.n.hi, h.n.lo))) ->
                   r.m_type = "Double" /\ r.m_data.d = h.n
              [] h.k = "string" ->
                   /\ r.m_type = "Object"
                   /\ OwnedWrapper(res.val) = HObject("stringObject", h.id, 0, NullPtr)
              [] h.k \in ObjectKinds /\ h.ifc = 1 ->
                   r.m_type = "Element" /\ r.m_data.p = h.ptr
              [] h.k = "function" /\ h.ifc # 1 ->
                   r.m_type = "Callable" /\ OwnedWrapper(res.val) = h
              [] h.k \in ObjectKinds \ {"function"} /\ h.ifc # 1 ->
                   r.m_type = "Object" /\ OwnedWrapper(res.val) = h
              [] OTHER -> ValueIsNull(r)

\* toValue has turned the object of an Element into that Element.
C7_Witness ==
    /\ res.op = "toValue"
    /\ sv.data = ElementObject(1)
    /\ res.val.v.m_type = "Element" /\ res.val.v.m_data.p = 1

\* C8: toObject of a string handle returns the string boxed into a string
\* object and of a string object the object itself, without an exception;
\* toObject of an element object throws the TypeMismatch exception and
\* returns no Object.
C8_ToObject ==
    res.op = "toObject" =>
        /\ sv.data.k = "string" =>
               res.nat = NObject(HObject("stringObject", sv.data.id, 0, NullPtr))
        /\ sv.data.k = "stringObject" /\ sv.data.ifc = 0 => res.nat = NObject(sv.data)
        /\ sv.data.k \in ObjectKinds /\ sv.data.ifc = 1 =>
               res.nat = Exception("Converting object of Element type to Object.", "1")

\* toObject has thrown for the object of an Element.
C8_Witness ==
    /\ res.op = "toObject"
    /\ sv.data = ElementObject(1)
    /\ res.nat.t = "exception"

C10_FromValue ==
    /\ ScopedFromValue(EmptyHeap, [ValueDefault EXCEPT !.m_type = "Unrecognized"])
           = Threw(Exception("Invalid Value type", "~LocalValue"))
    /\ origin.by = "value" =>
          LET v == origin.v.v
              h == sv.data
          IN  /\ sv.st = "built"
              /\ CASE v.m_type = "Boolean" ->
                        isBool(h) /\ ~isNumber(h) /\ toBool(h) = Int64ToBool(v.m_data.i)
                   [] v.m_type = "Integer" ->
                        isNumber(h) /\ toNumber(h) = Int64ToNumber(v.m_data.i)
                   [] v.m_type = "Double" ->
                        isNumber(h) /\ toNumber(h) = v.m_data.d
                   [] v.m_type \in {"Object", "Callable"} -> h = OwnedWrapper(origin.v)
                   [] v.m_type = "Element" ->
                        h = IF v.m_data.p = NullPtr THEN HUndefined
                            ELSE ElementObject(v.m_data.p)

\* C11: isElement() is true iff the handle is object-shaped and has exactly
\* one internal (marker) field; it is false for arrays, plain objects,
\* functions, strings, string objects and every handle that is not an object.
C11_IsElement ==
    (res.op = "classify" /\ sv.st = "built") =>
        /\ res.preds.isElement = (sv.data.k \in ObjectKinds /\ sv.data.ifc = 1)
        /\ sv.data.k \in {"array", "function", "string", "stringObject"}
               => ~res.preds.isElement
        /\ (sv.data.k = "object" /\ sv.data.ifc = 0) => ~res.preds.isElement
        /\ sv.data.k \notin ObjectKinds => ~res.preds.isElement

\* The object of Element 1, found through the registry, was classified as an
\* element.
C11_Witness ==
    /\ res.op = "classify" /\ origin.by = "element" /\ origin.p = 1
    /\ sv.st = "built" /\ sv.data = ElementObject(1)
    /\ res.preds.isElement /\ res.preds.isObject /\ ~res.preds.isArray

\* The tag a Value built from the native value src carries.
TagOf(src) ==
    CASE src.t = "bool" -> "Boolean"
      [] src.t \in {"int32", "int64"} -> "Integer"
      [] src.t = "number" -> "Double"
      [] src.t = "object" -> "Object"
      [] src.t = "callable" -> "Callable"
      [] src.t = "element" -> "Element"

IntegerOf(src) == IF src.t = "int32" THEN Int32ToInt64(src.x) ELSE src.i

IsZero(d) == d \in {NumZero, NumNegZero}

\* The payloads two Values of the same tag were built from compare equal:
\* scalar equality, the same engine object, the same Element.
PayloadsEqual(a, b) ==
    CASE TagOf(a) = "Boolean" -> a.b = b.b
      [] TagOf(a) = "Integer" -> IntegerOf(a) = IntegerOf(b)
      [] TagOf(a) = "Double" ->
             a.d # NumNaN /\ b.d # NumNaN /\ (a.d = b.d \/ (IsZero(a.d) /\ IsZero(b.d)))
      [] TagOf(a) \in {"Object", "Callable"} -> a.w = b.w
      [] TagOf(a) = "Element" -> a.p = b.p

EqualityAsStated ==
    res.op \in {"operator==", "copy=="} =>
        LET a == origin.v.v.src
            b == res.val.v.src
        IN  res.nat = NBool(TagOf(a) = TagOf(b) /\ PayloadsEqual(a, b))

\* C12 as stated: operator== holds iff the tags are the same and the
\* payloads compare equal for that tag, and a copy of a Value is equal to
\* its source.
C12_AsStated ==
    /\ EqualityAsStated
    /\ res.op = "copy==" => res.nat = NBool(TRUE)

\* C12 (amended): operator== holds iff the tags are the same and the
\* payloads compare equal for that tag; a copy of a Value is equal to its
\* source unless the Value is a Double that holds NaN, which compares
\* unequal to itself and so to its copy.
C12_Equality ==
    /\ EqualityAsStated
    /\ res.op = "copy==" =>
           res.nat = NBool(~(origin.v.v.m_type = "Double" /\ origin.v.v.m_data.d = NumNaN))

\* Value(false) was compared with Value(Int32(0)): the payloads are the same
\* bits, the tags differ, the Values are not equal.
C12_Witness ==
    /\ res.op = "operator=="
    /\ origin.v.v.src = NBool(FALSE)
    /\ res.val.v.src = NInt32(0)
    /\ res.nat = NBool(FALSE)

\* ------------------------------------------------------------------------
\* Properties of SpecScoped (continued)
\* ------------------------------------------------------------------------

\* The two ScopedValues hold the pair made by the same constructor call (one
\* is the other, or a copy or an assignment target of it, directly or not).
SamePair(this, other) == this.m_d = other.m_d /\ this.gen = other.gen

\* C13: two live ScopedValues are equal (operator==) iff they share the same
\* (handleRecord, refCount) pair: a copy or an assignment target is equal to
\* its source, two ScopedValues constructed independently are not equal,
\* after any sequence of copies, assignments and destructions.
C13_RecordIdentity ==
    \A s, o \in SSlots :
        (svs[s].alive /\ svs[o].alive) =>
            (ScopedEquals(svs[s], svs[o]) <=> SamePair(svs[s], svs[o]))

\* ------------------------------------------------------------------------
\* Properties of SpecConv (continued)
\* ------------------------------------------------------------------------

\* The integers between -2^53 and 2^53: every one of them is a double.
ExactDouble(i) ==
    \/ (i.hi >= -2097152 /\ i.hi < 2097152)
    \/ i = I64(2097152, 0)

\* C14: asNumber on an Integer tagged Value returns the integer payload
\* widened to a floating number (the same number when a double can hold it,
\* the nearest double otherwise); on a Boolean, Object, Callable or Element
\* tagged Value it fails with TypeMismatch.
C14_AsNumber ==
    res.op = "asNumber" =>
        LET src == origin.v.v.src
        IN  CASE TagOf(src) = "Integer" ->
                   /\ res.nat.t = "number"
                   /\ ExactDouble(IntegerOf(src)) => res.nat.d = NumInt(IntegerOf(src))
                   /\ res.nat.d = Int64ToNumber(IntegerOf(src))
              [] TagOf(src) = "Double" -> res.nat = src
              [] OTHER -> res.nat = Exception("Can't cast value into Number type", "~Value")

\* asNumber() was called on Value(Int32(42)) and returned 42.0.
C14_Witness ==
    /\ res.op = "asNumber"
    /\ origin.v.v.src = NInt32(42)
    /\ res.nat = NNumber(NumInt(I64(0, 42)))

\* ------------------------------------------------------------------------
\* Properties of SpecValue (continued)
\* ------------------------------------------------------------------------

Owners(a) == {s \in VSlots : OwnsWrapper(vals[s]) /\ vals[s].m_data.p = a}

\* C15: every allocated wrapper copy is owned by exactly one live Value or
\* has been freed exactly once, after any constructions, copies, assignments
\* (self-assignment included) and destructions; once all Values are
\* destroyed no wrapper copy remains allocated.
C15_ExclusiveOwnership ==
    /\ fault = "none"
    /\ \A a \in WAddrs : wheap[a].st = "live" => Cardinality(Owners(a)) = 1
    /\ (\A s \in VSlots : ~vals[s].alive) => (\A a \in WAddrs : wheap[a].st # "live")

\* ------------------------------------------------------------------------
\* Properties of SpecTrack
\* ------------------------------------------------------------------------

\* The notifications sent, in their order, fit the segments that were inside
\* when each one was sent: cursorEnter goes to a segment that is not inside,
\* cursorNext, cursorMove and cursorExit go to a segment that is inside.
RECURSIVE Alternates(_, _)
Alternates(inside, sent) ==
    IF sent = <<>> THEN TRUE
    ELSE /\ IF Head(sent).op = "cursorEnter" THEN Head(sent).seg \notin inside
            ELSE Head(sent).seg \in inside
         /\ Alternates(Replay(inside, <<Head(sent)>>), Tail(sent))

ActiveSet(active) == IF active = NoSegment THEN {} ELSE {active}

\* C16: over any sequence of updateCursorPosition calls (with any changes of
\* the segment model between them) a segment is told
\* cursorEnter only when it is not the active segment, cursorNext, cursorMove
\* and cursorExit only while it is the active segment; when the cursor moves
\* from one segment into another the old segment's cursorExit comes before
\* the new segment's cursorEnter in the same call; after the call the stored
\* cursor position is the requested one.
C16_CursorProtocol ==
    /\ entered = ActiveSet(m_activeSegment)
    /\ lastCall.made =>
          /\ lastCall.inside = ActiveSet(lastCall.activeBefore)
          /\ Alternates(lastCall.inside, lastCall.notes)
          /\ \A i \in DOMAIN lastCall.notes :
                lastCall.notes[i].op # "cursorEnter" =>
                    lastCall.notes[i].seg = lastCall.activeBefore
          /\ (/\ lastCall.activeBefore # NoSegment
              /\ m_activeSegment # NoSegment
              /\ m_activeSegment # lastCall.activeBefore) =>
                 /\ Len(lastCall.notes) = 2
                 /\ lastCall.notes[1].op = "cursorExit"
                 /\ lastCall.notes[1].seg = lastCall.activeBefore
                 /\ lastCall.notes[2].op = "cursorEnter"
                 /\ lastCall.notes[2].seg = m_activeSegment
          /\ m_cursorPosition = lastCall.req

\* The cursor went from position 1 in segment 1 to position 2 in the
\* adjacent segment 2 in one call.
C16_Witness ==
    /\ lastCall.made /\ lastCall.req = 2
    /\ lastCall.activeBefore = 1 /\ m_activeSegment = 2
    /\ lastCall.notes = <<Note(1, "cursorExit", 0), Note(2, "cursorEnter", 0)>>

\* C17: the active segment is null or a segment the segment model holds,
\* after any interleaving of addSegment, takeSegment, clearSegments,
\* deserialize and updateCursorPosition.
C17_ActiveSegmentHeld ==
    /\ tfault = "none"
    /\ m_activeSegment # NoSegment => segments[m_activeSegment] = "held"

\* ------------------------------------------------------------------------
\* Properties of SpecEditing
\* ------------------------------------------------------------------------

\* C18: when Palette and Runtime are both set, removeEditingState of one of
\* them leaves Silent set and the other one set.
C18_AlsoSilent ==
    (/\ lastEdit.op = "remove"
     /\ lastEdit.arg \in {Palette, Runtime}
     /\ editingStateIs(lastEdit.before, Palette)
     /\ editingStateIs(lastEdit.before, Runtime)) =>
        /\ editingStateIs(m_editingState, Silent)
        /\ editingStateIs(m_editingState,
                          IF lastEdit.arg = Palette THEN Runtime ELSE Palette)

\* Palette was removed while Palette and Runtime were set: Runtime (and with
\* it Silent) is what remains.
C18_Witness ==
    /\ lastEdit = Edit("remove", Palette, 14)
    /\ m_editingState = Runtime

\* C19: removeEditingState(s) with editingStateIs(s) false before the call
\* leaves the editing state unchanged.
C19_RemoveOnlyIfSet ==
    (lastEdit.op = "remove" /\ ~editingStateIs(lastEdit.before, lastEdit.arg)) =>
        m_editingState = lastEdit.before

====
